---- MODULE Spec2Model ----
(***************************************************************************)
(* Model of the melee subsystem of "Platforms of Rabbits" (melee.py):      *)
(* AttackSpec, AttackHitbox and MeleeController, driven by the frame loop  *)
(* of test_melee.py (try_start on a key press, update(dt) every frame,     *)
(* the owner, the enemies and the facing moving between calls).            *)
(***************************************************************************)
EXTENDS Integers, FiniteSets, Sequences, TLC

VARIABLES
    spec,               \* MeleeController.spec : AttackSpec
    owner_rect,         \* owner.rect
    enemy_rect,         \* rect of every sprite of the enemies group
    facing,             \* value the facing provider returns (Player.facing)
    phase,              \* MeleeController.phase
    phase_time,         \* MeleeController.phase_time
    _locked_facing,     \* MeleeController._locked_facing
    _hitbox,            \* MeleeController._hitbox (identity of the hitbox, or NoHitbox)
    hitboxes,           \* the AttackHitbox objects still referenced, by identity
    on_hit,             \* MeleeController.on_hit: which callback the caller supplied
    enemy_hp,           \* hp of every sprite of the enemies group
    attack_group,       \* identities of the sprites in attack_group
    ret,                \* value returned by the last controller call ("None" after a move)
    last_call,          \* what the frame loop did last: a controller call or a move
    on_hit_count,       \* on_hit calls per target since the last successful try_start
    on_hit_time,        \* hitbox elapsed time at the last on_hit call, per target hit
    overlap_all,        \* per target: it overlapped the hitbox at every update of the swing
    saw_active,         \* some update of the swing left the hitbox active
    fed,                \* sum of the deltas fed to update() during the swing
    state,              \* meleeAttack.py: Player.state
    state_time,         \* meleeAttack.py: Player.state_time
    attack_hitbox,      \* meleeAttack.py: Player.attack_hitbox (identity, or NoHitbox)
    attacks,            \* meleeAttack.py: identities of the sprites in the attacks group
    demo_hitboxes,      \* meleeAttack.py: the AttackHitbox objects still referenced
    demo_hp,            \* meleeAttack.py: Enemy.hp of every sprite of the enemies group
    game,               \* which platformer runs: "main" (main.py), "simplephysics", or "none"
    indexlevel,         \* main(): indexlevel
    player_rect,        \* platformer Player.rect
    vel_y,              \* platformer Player.vel_y, in half pixels per frame
    on_ground,          \* platformer Player.on_ground
    jumped,             \* the last handle_input started a jump
    loop_at,            \* main(): the next statement of the loop body, "update" or "portal"
    now,                \* test.py: now = pygame.time.get_ticks() of the current frame
    BULLETS,            \* test.py: the global BULLETS
    latest_shot,        \* test.py: Player.latest_shot
    bullets,            \* test.py: number of sprites in the bullets group
    health,             \* test.py: Player.health
    wavecount,          \* test.py: wavecount
    hit_at_zero         \* observation: on_hit reached an enemy of test.py whose hp was 0 or less

vars == <<spec, owner_rect, enemy_rect, facing, phase, phase_time, _locked_facing,
          _hitbox, hitboxes, attack_group, on_hit, enemy_hp, ret, last_call,
          on_hit_count, on_hit_time, overlap_all, saw_active, fed,
          state, state_time, attack_hitbox, attacks, demo_hitboxes, demo_hp,
          game, indexlevel, player_rect, vel_y, on_ground, jumped, loop_at,
          now, BULLETS, latest_shot, bullets, health, wavecount, hit_at_zero>>

ctl_vars == <<phase, phase_time, _locked_facing, _hitbox, hitboxes, attack_group>>
env_vars == <<owner_rect, enemy_rect, facing>>
cfg_vars == <<spec, on_hit>>
obs_vars == <<on_hit_count, on_hit_time, overlap_all, saw_active, fed>>
demo_vars == <<state, state_time, attack_hitbox, attacks, demo_hitboxes, demo_hp>>
plat_vars == <<game, indexlevel, player_rect, vel_y, on_ground, jumped, loop_at>>
melee_vars == <<cfg_vars, env_vars, ctl_vars, obs_vars, enemy_hp, ret, last_call>>
arena_vars == <<now, BULLETS, latest_shot, bullets, health, wavecount, hit_at_zero>>
other_vars == <<demo_vars, plat_vars, arena_vars>>

-----------------------------------------------------------------------------
(* Bounds and inputs *)

MaxDt == 5
ScenarioMaxDt == 16

Deltas == 0..MaxDt
ScenarioDeltas == 0..ScenarioMaxDt

OneEnemy == {"e1"}

\* Enemy.__init__(self, pos, hp: int = 6)
EnemyHp == 6

Facings == {<<1, 0>>, <<-1, 0>>, <<0, -1>>, <<0, 1>>}

Rect(x, y, w, h) == [x |-> x, y |-> y, w |-> w, h |-> h]

OwnerRects == {Rect(10, 10, 2, 4), Rect(20, 10, 2, 4)}

\* right of the owner at (10,10), above it, and away from both
EnemyRects == {Rect(14, 11, 2, 2), Rect(10, 6, 2, 2), Rect(40, 40, 2, 2)}

-----------------------------------------------------------------------------
(* AttackSpec *)

DefaultWindupMs == 120
DefaultActiveMs == 180
DefaultRecoveryMs == 200

AttackSpec(windup, active, recovery, interval, lock) ==
    [windup_ms |-> windup, active_ms |-> active, recovery_ms |-> recovery,
     damage |-> 1,
     hitbox_w |-> 4, hitbox_h |-> 2, hitbox_w_v |-> 2, hitbox_h_v |-> 4,
     front_gap_px |-> 1,
     multi_hit_interval_ms |-> interval,
     lock_facing_during_attack |-> lock]

\* AttackSpec.total_ms
total_ms_NoRecovery(s) == s.windup_ms + s.active_ms

total_ms(s) == s.windup_ms + s.active_ms + s.recovery_ms

SmallSpecs ==
    {AttackSpec(1, 4, 2, 0, FALSE), AttackSpec(1, 4, 2, 2, FALSE),
     AttackSpec(1, 4, 2, 0, TRUE), AttackSpec(0, 0, 2, 0, FALSE)}

\* AttackSpec(): every field at its default
DefaultAttackSpec ==
    [windup_ms |-> DefaultWindupMs, active_ms |-> DefaultActiveMs,
     recovery_ms |-> DefaultRecoveryMs,
     damage |-> 1,
     hitbox_w |-> 44, hitbox_h |-> 24, hitbox_w_v |-> 24, hitbox_h_v |-> 44,
     front_gap_px |-> 6,
     multi_hit_interval_ms |-> 0,
     lock_facing_during_attack |-> FALSE]

ScenarioSpecs ==
    {AttackSpec(DefaultWindupMs, DefaultActiveMs, DefaultRecoveryMs, 0, FALSE)}

-----------------------------------------------------------------------------
(* pygame.Rect and Vector2 as the code uses them *)

NoHitbox == 0
NoFacing == <<>>
NeverHitTime == -10000000

Sign(v) == IF v > 0 THEN 1 ELSE IF v < 0 THEN -1 ELSE 0

Normalize(f) == <<Sign(f[1]), Sign(f[2])>>

right(r) == r.x + r.w
bottom(r) == r.y + r.h
centerx(r) == r.x + (r.w \div 2)
centery(r) == r.y + (r.h \div 2)

colliderect(a, b) ==
    /\ a.x < b.x + b.w
    /\ a.y < b.y + b.h
    /\ b.x < a.x + a.w
    /\ b.y < a.y + a.h

\* AttackHitbox._reposition
Reposition_LeftEdge(rect, f, pr, gap) ==
    IF f[1] = 1 THEN [rect EXCEPT !.x = right(pr) + gap, !.y = centery(pr) - (rect.h \div 2)]
    ELSE IF f[1] = -1 THEN [rect EXCEPT !.x = pr.x - gap, !.y = centery(pr) - (rect.h \div 2)]
    ELSE IF f[2] = -1 THEN [rect EXCEPT !.x = centerx(pr) - (rect.w \div 2), !.y = pr.y - gap - rect.h]
    ELSE IF f[2] = 1 THEN [rect EXCEPT !.x = centerx(pr) - (rect.w \div 2), !.y = bottom(pr) + gap]
    ELSE rect

Reposition_DefaultRight(rect, f, pr, gap) ==
    IF f[1] = -1 THEN [rect EXCEPT !.x = pr.x - gap - rect.w, !.y = centery(pr) - (rect.h \div 2)]
    ELSE IF f[1] # 1 /\ f[2] = -1
    THEN [rect EXCEPT !.x = centerx(pr) - (rect.w \div 2), !.y = pr.y - gap - rect.h]
    ELSE IF f[1] # 1 /\ f[2] = 1
    THEN [rect EXCEPT !.x = centerx(pr) - (rect.w \div 2), !.y = bottom(pr) + gap]
    ELSE [rect EXCEPT !.x = right(pr) + gap, !.y = centery(pr) - (rect.h \div 2)]

Reposition(rect, f, pr, gap) ==
    IF f[1] = 1 THEN [rect EXCEPT !.x = right(pr) + gap, !.y = centery(pr) - (rect.h \div 2)]
    ELSE IF f[1] = -1 THEN [rect EXCEPT !.x = pr.x - gap - rect.w, !.y = centery(pr) - (rect.h \div 2)]
    ELSE IF f[2] = -1 THEN [rect EXCEPT !.x = centerx(pr) - (rect.w \div 2), !.y = pr.y - gap - rect.h]
    ELSE IF f[2] = 1 THEN [rect EXCEPT !.x = centerx(pr) - (rect.w \div 2), !.y = bottom(pr) + gap]
    ELSE rect

-----------------------------------------------------------------------------
(* AttackHitbox *)

\* AttackHitbox.__init__
NewHitbox_SharedRecord(s, facing_vec, pr) ==
    LET f == Normalize(facing_vec)
        size == IF f[2] = 0 THEN <<s.hitbox_w, s.hitbox_h>> ELSE <<s.hitbox_w_v, s.hitbox_h_v>>
    IN  [facing |-> f,
         elapsed |-> 0,
         active_start |-> s.windup_ms,
         active_end |-> s.windup_ms + s.active_ms,
         duration |-> total_ms(s),
         active |-> FALSE,
         rect |-> Reposition(Rect(0, 0, size[1], size[2]), f, pr, s.front_gap_px),
         last_hit_time_by_enemy |-> [e \in DOMAIN on_hit_time |-> on_hit_time[e]]]

NewHitbox(s, facing_vec, pr) ==
    LET f == Normalize(facing_vec)
        size == IF f[2] = 0 THEN <<s.hitbox_w, s.hitbox_h>> ELSE <<s.hitbox_w_v, s.hitbox_h_v>>
    IN  [facing |-> f,
         elapsed |-> 0,
         active_start |-> s.windup_ms,
         active_end |-> s.windup_ms + s.active_ms,
         duration |-> total_ms(s),
         active |-> FALSE,
         rect |-> Reposition(Rect(0, 0, size[1], size[2]), f, pr, s.front_gap_px),
         last_hit_time_by_enemy |-> <<>>]

\* self.active = self.active_start <= self.elapsed < self.active_end
ActiveAt_InclusiveEnd(h, elapsed) == h.active_start <= elapsed /\ elapsed <= h.active_end

ActiveAt_FromSpawn(h, elapsed) == elapsed < h.active_end

ActiveAt(h, elapsed) == h.active_start <= elapsed /\ elapsed < h.active_end

LastHit(h, e) ==
    IF e \in DOMAIN h.last_hit_time_by_enemy THEN h.last_hit_time_by_enemy[e] ELSE NeverHitTime

\* the decision taken for one colliding enemy inside the loop of AttackHitbox.update
HitsNow_EveryFrame(h, e, elapsed, s) == TRUE

HitsNow_ZeroIsThrottled(h, e, elapsed, s) ==
    IF s.multi_hit_interval_ms < 0
    THEN e \notin DOMAIN h.last_hit_time_by_enemy
    ELSE elapsed - LastHit(h, e) >= s.multi_hit_interval_ms

HitsNow_NoThrottle(h, e, elapsed, s) ==
    IF s.multi_hit_interval_ms <= 0
    THEN e \notin DOMAIN h.last_hit_time_by_enemy
    ELSE TRUE

HitsNow_LateRehit(h, e, elapsed, s) ==
    IF s.multi_hit_interval_ms <= 0
    THEN e \notin DOMAIN h.last_hit_time_by_enemy
    ELSE elapsed - LastHit(h, e) > s.multi_hit_interval_ms

HitsNow(h, e, elapsed, s) ==
    IF s.multi_hit_interval_ms <= 0
    THEN e \notin DOMAIN h.last_hit_time_by_enemy
    ELSE elapsed - LastHit(h, e) >= s.multi_hit_interval_ms

\* self.last_hit_time_by_enemy[enemy] = self.elapsed, for every enemy hit
HitRecord_DropOnExit(old, hits, collided, elapsed) ==
    [e \in ((DOMAIN old) \cap collided) \cup hits |-> IF e \in hits THEN elapsed ELSE old[e]]

HitRecord(old, hits, collided, elapsed) ==
    [e \in (DOMAIN old) \cup hits |-> IF e \in hits THEN elapsed ELSE old[e]]

\* pygame.sprite.spritecollide(self, self.enemies_group, False)
spritecollide_Everyone(rect, enemies) == DOMAIN enemies

spritecollide(rect, enemies) == {e \in DOMAIN enemies : colliderect(rect, enemies[e])}

\* if self.elapsed >= self.duration: self.kill()
Expired_Late(h, elapsed) == elapsed > h.duration

Expired(h, elapsed) == elapsed >= h.duration

\* AttackHitbox.update: the hitbox after the call, the enemies on_hit was called
\* for, the enemies that collided, and whether the hitbox killed itself
HitboxUpdate(h, dt, s, pr, enemies) ==
    LET elapsed == h.elapsed + dt
        rect == Reposition(h.rect, h.facing, pr, s.front_gap_px)
        active == ActiveAt(h, elapsed)
        collided == spritecollide(rect, enemies)
        hits == IF active THEN {e \in collided : HitsNow(h, e, elapsed, s)} ELSE {}
        rec == HitRecord(h.last_hit_time_by_enemy, hits, collided, elapsed)
    IN  [hb |-> [h EXCEPT !.elapsed = elapsed, !.rect = rect, !.active = active,
                          !.last_hit_time_by_enemy = rec],
         hits |-> hits,
         collided |-> collided,
         kill |-> Expired(h, elapsed)]

\* Sprite.kill(): leave every group
Kill_Noop(group, id) == group

Kill(group, id) == group \ {id}

\* objects nothing refers to any more are gone
Collect(heap, live) == [i \in (DOMAIN heap) \cap live |-> heap[i]]

FreshId(heap) == CHOOSE i \in 1..(Cardinality(DOMAIN heap) + 1) : i \notin DOMAIN heap

-----------------------------------------------------------------------------
(* MeleeController *)

\* MeleeController.is_attacking
is_attacking_ActiveOnly == phase = "active"

is_attacking == phase \in {"windup", "active", "recovery"}

\* if self.phase != "idle": return False
CanStart_Combo(ph) == ph \in {"idle", "recovery"}

CanStart(ph) == ph = "idle"

\* MeleeController._get_effective_facing
EffectiveFacing_Live(locked, live) == live

EffectiveFacing(locked, live) == IF locked # NoFacing THEN locked ELSE live

\* the if/elif chain of MeleeController.update
PhaseAfter_Cascade(ph, pt, s) ==
    IF ph = "windup" /\ pt >= s.windup_ms
    THEN IF pt >= total_ms(s) THEN "idle"
         ELSE IF pt >= s.windup_ms + s.active_ms THEN "recovery" ELSE "active"
    ELSE IF ph = "active" /\ pt >= s.windup_ms + s.active_ms
    THEN IF pt >= total_ms(s) THEN "idle" ELSE "recovery"
    ELSE IF ph = "recovery" /\ pt >= total_ms(s) THEN "idle"
    ELSE ph

PhaseAfter_Strict(ph, pt, s) ==
    IF ph = "windup" /\ pt > s.windup_ms THEN "active"
    ELSE IF ph = "active" /\ pt > s.windup_ms + s.active_ms THEN "recovery"
    ELSE IF ph = "recovery" /\ pt > total_ms(s) THEN "idle"
    ELSE ph

PhaseAfter(ph, pt, s) ==
    IF ph = "windup" /\ pt >= s.windup_ms THEN "active"
    ELSE IF ph = "active" /\ pt >= s.windup_ms + s.active_ms THEN "recovery"
    ELSE IF ph = "recovery" /\ pt >= total_ms(s) THEN "idle"
    ELSE ph

\* self.phase_time after the call: reset when the swing ends
PhaseTimeAfter_Keep(ends, pt) == pt

PhaseTimeAfter(ends, pt) == IF ends THEN 0 ELSE pt

\* if self.phase == "idle": return
ReturnsEarly_Never(ph) == FALSE

ReturnsEarly(ph) == ph = "idle"

\* self._hitbox after the call: cleared when the swing ends
HitboxRefAfter_Kept(ends, ref) == ref

HitboxRefAfter(ends, ref) == IF ends THEN NoHitbox ELSE ref

Targets == DOMAIN enemy_rect

NoCalls == [e \in Targets |-> 0]
AllTrue == [e \in Targets |-> TRUE]

\* the callback invoked for every enemy of hits: the default of MeleeController
\* does nothing, the one of the demo calls Enemy.take_damage(spec.damage)
Deliver_Unclamped(cb, hp, hits, s) ==
    IF cb = "take_damage"
    THEN [e \in DOMAIN hp |-> IF e \in hits THEN hp[e] - s.damage ELSE hp[e]]
    ELSE hp

Deliver_Direct(cb, hp, hits, s) ==
    [e \in DOMAIN hp |-> IF e \in hits /\ hp[e] > s.damage THEN hp[e] - s.damage
                         ELSE IF e \in hits THEN 0 ELSE hp[e]]

Deliver(cb, hp, hits, s) ==
    IF cb = "take_damage"
    THEN [e \in DOMAIN hp |-> IF e \in hits /\ hp[e] > s.damage THEN hp[e] - s.damage
                              ELSE IF e \in hits THEN 0 ELSE hp[e]]
    ELSE hp

\* MeleeController.try_start
MeleeTryStart ==
    /\ last_call' = "try_start"
    /\ UNCHANGED <<cfg_vars, env_vars, enemy_hp>>
    /\ IF ~CanStart(phase)
       THEN /\ ret' = "False"
            /\ UNCHANGED <<ctl_vars, obs_vars>>
       ELSE LET locked == IF spec.lock_facing_during_attack THEN Normalize(facing) ELSE NoFacing
                hb == NewHitbox(spec, EffectiveFacing(locked, facing), owner_rect)
                id == FreshId(hitboxes)
            IN  /\ phase' = "windup"
                /\ phase_time' = 0
                /\ _locked_facing' = locked
                /\ _hitbox' = id
                /\ attack_group' = attack_group \cup {id}
                /\ hitboxes' = Collect([i \in (DOMAIN hitboxes) \cup {id} |->
                                           IF i = id THEN hb ELSE hitboxes[i]],
                                       attack_group' \cup {id})
                /\ ret' = "True"
                /\ on_hit_count' = NoCalls
                /\ on_hit_time' = <<>>
                /\ overlap_all' = AllTrue
                /\ saw_active' = FALSE
                /\ fed' = 0

\* self._hitbox.facing = self._get_effective_facing(), before self._hitbox.update(dt_ms)
RefreshFacing_Skipped(h, f) == h

RefreshFacing(h, f) == [h EXCEPT !.facing = f]

\* what a call leaves behind: the controller's fields, the objects, the group, the
\* enemies' hp, and what the call did to the enemies (on_hit calls per enemy, the
\* hitbox's elapsed time at them, who collided at every hitbox update of the call)
Outcome(ph, pt, ref, heap, group, hp, calls, hit_time, collided, active) ==
    [phase |-> ph, phase_time |-> pt, _hitbox |-> ref, hitboxes |-> heap,
     attack_group |-> group, enemy_hp |-> hp, calls |-> calls, hit_time |-> hit_time,
     collided |-> collided, active |-> active]

\* the body of MeleeController.update below its early return
ControllerUpdate(dt) ==
    LET has == _hitbox # NoHitbox
        h0 == RefreshFacing(hitboxes[_hitbox], EffectiveFacing(_locked_facing, facing))
        u == HitboxUpdate(h0, dt, spec, owner_rect, enemy_rect)
        group1 == IF has /\ u.kill THEN Kill(attack_group, _hitbox) ELSE attack_group
        heap1 == IF has THEN [hitboxes EXCEPT ![_hitbox] = u.hb] ELSE hitboxes
        hits == IF has THEN u.hits ELSE {}
        pt == phase_time + dt
        ph == PhaseAfter(phase, pt, spec)
        ends == phase = "recovery" /\ ph = "idle"
        group2 == IF ends /\ has /\ _hitbox \in group1 THEN Kill(group1, _hitbox) ELSE group1
    IN  Outcome(ph, PhaseTimeAfter(ends, pt), HitboxRefAfter(ends, _hitbox),
                heap1, group2, Deliver(on_hit, enemy_hp, hits, spec),
                [e \in Targets |-> IF e \in hits THEN 1 ELSE 0],
                [e \in hits |-> u.hb.elapsed],
                IF has THEN u.collided ELSE Targets, has /\ u.hb.active)

\* the state as it is, as the outcome of a call that did nothing
Untouched ==
    Outcome(phase, phase_time, _hitbox, hitboxes, attack_group, enemy_hp,
            NoCalls, <<>>, Targets, FALSE)

\* the controller's fields and the observations after a call with outcome r
Commit(r) ==
    /\ phase' = r.phase
    /\ phase_time' = r.phase_time
    /\ _hitbox' = r._hitbox
    /\ attack_group' = r.attack_group
    /\ hitboxes' = Collect(r.hitboxes, r.attack_group \cup ({r._hitbox} \ {NoHitbox}))
    /\ enemy_hp' = r.enemy_hp
    /\ on_hit_count' = [e \in Targets |-> on_hit_count[e] + r.calls[e]]
    /\ on_hit_time' = [e \in (DOMAIN on_hit_time) \cup (DOMAIN r.hit_time) |->
                          IF e \in DOMAIN r.hit_time THEN r.hit_time[e] ELSE on_hit_time[e]]
    /\ overlap_all' = [e \in Targets |-> overlap_all[e] /\ e \in r.collided]
    /\ saw_active' = (saw_active \/ r.active)

\* MeleeController.update
MeleeUpdate(dt) ==
    /\ last_call' = "update"
    /\ ret' = "None"
    /\ UNCHANGED <<cfg_vars, env_vars, _locked_facing>>
    /\ IF ReturnsEarly(phase)
       THEN UNCHANGED <<phase, phase_time, _hitbox, hitboxes, attack_group, enemy_hp, obs_vars>>
       ELSE /\ Commit(ControllerUpdate(dt))
            /\ fed' = fed + dt

\* a frame loop that calls the controller and nothing else of the repository
try_start == MeleeTryStart /\ UNCHANGED other_vars

update(dt) == MeleeUpdate(dt) /\ UNCHANGED other_vars

\* on_hit called by one hitbox after the other, for the enemies hits_of gives for it
RECURSIVE DeliverAll(_, _, _, _, _)
DeliverAll(cb, hp, ids, hits_of, s) ==
    IF ids = {} THEN hp
    ELSE LET i == CHOOSE x \in ids : TRUE
         IN  DeliverAll(cb, Deliver(cb, hp, hits_of[i], s), ids \ {i}, hits_of, s)

\* pygame.sprite.Group.update(dt_ms) on the attack group as the call with outcome
\* rc left it: update(dt_ms) of every sprite the group holds
GroupUpdate(rc, dt, s, pr, enemies, cb) ==
    LET ids == rc.attack_group
        U == [i \in ids |-> HitboxUpdate(rc.hitboxes[i], dt, s, pr, enemies)]
        again == UNION {U[i].hits : i \in ids}
    IN  Outcome(rc.phase, rc.phase_time, rc._hitbox,
                [i \in DOMAIN rc.hitboxes |-> IF i \in ids THEN U[i].hb ELSE rc.hitboxes[i]],
                {i \in ids : ~U[i].kill},
                DeliverAll(cb, rc.enemy_hp, ids, [i \in ids |-> U[i].hits], s),
                [e \in DOMAIN rc.calls |->
                    rc.calls[e] + Cardinality({i \in ids : e \in U[i].hits})],
                [e \in (DOMAIN rc.hit_time) \cup again |->
                    IF e \in again
                    THEN U[CHOOSE i \in ids : e \in U[i].hits].hb.elapsed
                    ELSE rc.hit_time[e]],
                {e \in rc.collided : \A i \in ids : e \in U[i].collided},
                rc.active \/ \E i \in ids : U[i].hb.active)

\* self.melee.update(dt_ms) followed by attacks.update(dt_ms)
update_then_group(dt) ==
    /\ last_call' = "update"
    /\ ret' = "None"
    /\ UNCHANGED <<cfg_vars, env_vars, _locked_facing, other_vars>>
    /\ Commit(GroupUpdate(IF ReturnsEarly(phase) THEN Untouched ELSE ControllerUpdate(dt),
                          dt, spec, owner_rect, enemy_rect, on_hit))
    /\ fed' = IF ReturnsEarly(phase) THEN fed ELSE fed + dt

-----------------------------------------------------------------------------
(* The rest of the frame loop: what moves between two controller calls *)

\* Player.handle_input: the owner moves
MoveOwner(r) ==
    /\ r # owner_rect
    /\ owner_rect' = r
    /\ last_call' = "move"
    /\ ret' = "None"
    /\ UNCHANGED <<cfg_vars, enemy_hp, enemy_rect, facing, ctl_vars, obs_vars, other_vars>>

\* an enemy of the target group moves
MoveEnemy(e, r) ==
    /\ r # enemy_rect[e]
    /\ enemy_rect' = [enemy_rect EXCEPT ![e] = r]
    /\ last_call' = "move"
    /\ ret' = "None"
    /\ UNCHANGED <<cfg_vars, enemy_hp, owner_rect, facing, ctl_vars, obs_vars, other_vars>>

\* Player.handle_input: the facing follows the keys
SetFacing(f) ==
    /\ f # facing
    /\ facing' = f
    /\ last_call' = "move"
    /\ ret' = "None"
    /\ UNCHANGED <<cfg_vars, enemy_hp, owner_rect, enemy_rect, ctl_vars, obs_vars, other_vars>>

-----------------------------------------------------------------------------
(* meleeAttack.py: the demo's own hitbox, Player state machine and frame loop *)

WINDUP_MS == 120
ACTIVE_MS == 180
RECOVERY_MS == 200
TOTAL_MS == WINDUP_MS + ACTIVE_MS + RECOVERY_MS

HITBOX_W == 44
HITBOX_H == 24
HITBOX_W_V == 24
HITBOX_H_V == 44

FRONT_GAP == 6

\* Enemy.take_damage
take_damage_Unclamped(hp, dmg) == hp - dmg

take_damage(hp, dmg) == IF hp - dmg > 0 THEN hp - dmg ELSE 0

\* AttackHitbox.__init__ of the demo: the rectangle stays at the origin until the
\* first update
DemoHitbox(facing_vec) ==
    LET f == <<Sign(facing_vec[1]), Sign(facing_vec[2])>>
        size == IF f[2] = 0 THEN <<HITBOX_W, HITBOX_H>> ELSE <<HITBOX_W_V, HITBOX_H_V>>
    IN  [facing |-> f,
         elapsed |-> 0,
         active_start |-> WINDUP_MS,
         active_end |-> WINDUP_MS + ACTIVE_MS,
         duration |-> TOTAL_MS,
         active |-> FALSE,
         rect |-> Rect(0, 0, size[1], size[2]),
         already_hit |-> {}]

\* AttackHitbox._reposition of the demo
DemoReposition(rect, f, pr) ==
    IF f[1] = 1
    THEN [rect EXCEPT !.x = right(pr) + FRONT_GAP, !.y = centery(pr) - (rect.h \div 2)]
    ELSE IF f[1] = -1
    THEN [rect EXCEPT !.x = pr.x - FRONT_GAP - rect.w, !.y = centery(pr) - (rect.h \div 2)]
    ELSE IF f[2] = -1
    THEN [rect EXCEPT !.x = centerx(pr) - (rect.w \div 2), !.y = pr.y - FRONT_GAP - rect.h]
    ELSE IF f[2] = 1
    THEN [rect EXCEPT !.x = centerx(pr) - (rect.w \div 2), !.y = bottom(pr) + FRONT_GAP]
    ELSE rect

\* if self.elapsed >= self.duration: self.kill()
DemoExpired_Never(h, elapsed) == FALSE

DemoExpired(h, elapsed) == elapsed >= h.duration

\* AttackHitbox.update of the demo: the hitbox after the call, the enemies it
\* damaged, and whether it killed itself
DemoHitboxUpdate(h, dt, pr, enemies) ==
    LET elapsed == h.elapsed + dt
        rect == DemoReposition(h.rect, h.facing, pr)
        active == h.active_start <= elapsed /\ elapsed < h.active_end
        hits == IF active
                THEN {e \in spritecollide(rect, enemies) : e \notin h.already_hit}
                ELSE {}
    IN  [hb |-> [h EXCEPT !.elapsed = elapsed, !.rect = rect, !.active = active,
                          !.already_hit = h.already_hit \cup hits],
         hits |-> hits,
         kill |-> DemoExpired(h, elapsed)]

\* Player.start_attack
DemoStartAttack ==
    /\ UNCHANGED demo_hp
    /\ IF state # "idle"
       THEN UNCHANGED <<state, state_time, attack_hitbox, attacks, demo_hitboxes>>
       ELSE LET id == FreshId(demo_hitboxes)
            IN  /\ state' = "windup"
                /\ state_time' = 0
                /\ attack_hitbox' = id
                /\ attacks' = attacks \cup {id}
                /\ demo_hitboxes' =
                      Collect([i \in (DOMAIN demo_hitboxes) \cup {id} |->
                                  IF i = id THEN DemoHitbox(facing) ELSE demo_hitboxes[i]],
                              attacks \cup {id})

\* the if/elif chain of Player.update
DemoStateAfter(st, t) ==
    IF st = "windup" /\ t >= WINDUP_MS THEN "active"
    ELSE IF st = "active" /\ t >= WINDUP_MS + ACTIVE_MS THEN "recovery"
    ELSE IF st = "recovery" /\ t >= TOTAL_MS THEN "idle"
    ELSE st

\* enemy.take_damage(1) by one hitbox of the group after the other
RECURSIVE DemoDamageAll(_, _, _)
DemoDamageAll(hp, ids, hits_of) ==
    IF ids = {} THEN hp
    ELSE LET i == CHOOSE x \in ids : TRUE
         IN  DemoDamageAll([e \in DOMAIN hp |->
                               IF e \in hits_of[i] THEN take_damage(hp[e], 1) ELSE hp[e]],
                           ids \ {i}, hits_of)

\* attacks.update(dt) on the objects of heap
DemoGroupUpdate(heap, group, dt, pr, enemies) ==
    [i \in group |-> DemoHitboxUpdate(heap[i], dt, pr, enemies)]

\* one frame of main() below the events: player.update(dt, keys), then
\* attacks.update(dt); the keys moved the player and set the facing before
DemoFrame(dt) ==
    LET t == IF state # "idle" THEN state_time + dt ELSE state_time
        st == DemoStateAfter(state, t)
        ends == state = "recovery" /\ st = "idle"
        ref == IF ends THEN NoHitbox ELSE attack_hitbox
        heap1 == IF ref # NoHitbox
                 THEN [demo_hitboxes EXCEPT ![ref].facing = facing]
                 ELSE demo_hitboxes
        U == DemoGroupUpdate(heap1, attacks, dt, owner_rect, enemy_rect)
        left == {i \in attacks : ~U[i].kill}
    IN  /\ state' = st
        /\ state_time' = IF ends THEN 0 ELSE t
        /\ attack_hitbox' = ref
        /\ attacks' = left
        /\ demo_hitboxes' =
              Collect([i \in DOMAIN heap1 |-> IF i \in attacks THEN U[i].hb ELSE heap1[i]],
                      left \cup ({ref} \ {NoHitbox}))
        /\ demo_hp' = DemoDamageAll(demo_hp, attacks, [i \in attacks |-> U[i].hits])

\* the J key in the events of a frame, for the demo's Player and for a
\* MeleeController driven by the same loop
PairStart == MeleeTryStart /\ DemoStartAttack /\ UNCHANGED <<plat_vars, arena_vars>>

\* the update phase of a frame, for both
PairFrame(dt) == MeleeUpdate(dt) /\ DemoFrame(dt) /\ UNCHANGED <<plat_vars, arena_vars>>

-----------------------------------------------------------------------------
(* main.py and simplephysics.py: the platformer's Player and level loop *)

JUMP_POWER == 15
GRAVITY == 1
SPEED == 10
HITBOX_HEIGHT == 68
HITBOX_WIDTH == 75
SimpleWidth == 50

SCREEN_WIDTH == 800
SCREEN_HEIGHT == 600

\* the model follows the player while it is on the screen or at most this far
\* left of it, right of it or below it
WorldMargin == 150

\* Portals(x, y).rect and Springs(x, y).rect of simplephysics.py
Portals(x, y) == Rect(x, y, 74, 55)
Springs(x, y) == Rect(x, y, 75, 20)

\* Platform layout of simplephysics.py
LEVEL1 == <<Rect(0, 500, 800, 40), Rect(500, 400, 200, 20), Rect(700, 320, 100, 20)>>
LEVEL2 == <<Rect(100, 220, 100, 20), Rect(120, 120, 700, 20), Rect(-100, 320, 200, 20)>>
LEVEL3 == <<Rect(0, 500, 325, 40), Rect(500, 250, 700, 20)>>
LEVEL4 == <<Rect(0, 500, 150, 40)>>

SLEVEL3 == <<Springs(250, 450)>>
SLEVEL4 == <<Springs(100, 430), Springs(350, 220)>>

\* leveldata of simplephysics.py; the portal is a set, empty for None
SimpleLeveldata(levelindex) ==
    IF levelindex = 0 THEN [platforms |-> LEVEL4, portal |-> {Portals(730, 260)}, springs |-> SLEVEL4]
    ELSE IF levelindex = 1 THEN [platforms |-> LEVEL2, portal |-> {Portals(730, 50)}, springs |-> <<>>]
    ELSE IF levelindex = 2 THEN [platforms |-> LEVEL3, portal |-> {Portals(730, 200)}, springs |-> SLEVEL3]
    ELSE IF levelindex = 3 THEN [platforms |-> LEVEL4, portal |-> {Portals(730, 260)}, springs |-> SLEVEL4]
    ELSE [platforms |-> LEVEL1, portal |-> {}, springs |-> <<>>]

\* leveldata of main.py: the portal and the start position x, y of every level
MainLeveldata(levelindex) ==
    IF levelindex = 0 THEN [portal |-> {Portals(730, 240)}, x |-> 25, y |-> 200]
    ELSE IF levelindex = 1 THEN [portal |-> {Portals(730, 50)}, x |-> 25, y |-> 200]
    ELSE IF levelindex = 2 THEN [portal |-> {Portals(730, 200)}, x |-> 25, y |-> 200]
    ELSE IF levelindex = 3 THEN [portal |-> {Portals(730, 260)}, x |-> 25, y |-> 200]
    ELSE IF levelindex = 4 THEN [portal |-> {Portals(400, 150)}, x |-> 10, y |-> 300]
    ELSE IF levelindex = 5 THEN [portal |-> {Portals(400, 150)}, x |-> 10, y |-> 300]
    ELSE IF levelindex = 6 THEN [portal |-> {Portals(400, 155)}, x |-> 10, y |-> 300]
    ELSE IF levelindex = 7 THEN [portal |-> {Portals(700, 450)}, x |-> 10, y |-> 300]
    ELSE IF levelindex = 8 THEN [portal |-> {Portals(730, 240)}, x |-> 25, y |-> 200]
    ELSE IF levelindex = 9 THEN [portal |-> {Portals(730, 50)}, x |-> 25, y |-> 200]
    ELSE IF levelindex = 10 THEN [portal |-> {Portals(730, 50)}, x |-> 25, y |-> 200]
    ELSE IF levelindex = 11 THEN [portal |-> {Portals(700, 450)}, x |-> 25, y |-> 200]
    ELSE IF levelindex = 12 THEN [portal |-> {Portals(700, 450)}, x |-> 25, y |-> 200]
    ELSE [portal |-> {}, x |-> 25, y |-> 200]

\* the portal of the level the loop is in
PortalOf_Endless(g, levelindex) ==
    IF g = "main" THEN MainLeveldata(levelindex % 13).portal
    ELSE SimpleLeveldata(levelindex % 4).portal

PortalOf(g, levelindex) ==
    IF g = "main" THEN MainLeveldata(levelindex).portal
    ELSE SimpleLeveldata(levelindex).portal

\* player.rect.x, player.rect.y after a level change
StartOf(g, levelindex) ==
    IF g = "main" THEN <<MainLeveldata(levelindex).x, MainLeveldata(levelindex).y>>
    ELSE <<-100, 200>>

\* a float assigned to a Rect coordinate is truncated towards zero; n is in halves
TruncHalf(n) == IF n >= 0 THEN n \div 2 ELSE -((-n) \div 2)

\* Player.check_collisions on the platforms k.. of plats; p holds rect, vel_y, on_ground
Land_KeepFalling(p, plat) ==
    [p EXCEPT !.rect.y = plat.y - p.rect.h, !.on_ground = TRUE]

Land(p, plat) ==
    [p EXCEPT !.rect.y = plat.y - p.rect.h, !.vel_y = 0, !.on_ground = TRUE]

Collide(p, plat) ==
    IF ~colliderect(p.rect, plat) THEN p
    ELSE IF p.vel_y > 0 /\ 2 * bottom(p.rect) - p.vel_y <= 2 * plat.y THEN Land(p, plat)
    ELSE IF p.vel_y < 0 /\ 2 * p.rect.y - p.vel_y >= 2 * bottom(plat)
    THEN [p EXCEPT !.rect.y = bottom(plat), !.vel_y = 0]
    ELSE IF centerx(p.rect) < centerx(plat)
    THEN [p EXCEPT !.rect.x = plat.x - p.rect.w]
    ELSE [p EXCEPT !.rect.x = right(plat)]

RECURSIVE check_collisions(_, _, _)
check_collisions(p, plats, k) ==
    IF k > Len(plats) THEN p
    ELSE check_collisions(Collide(p, plats[k]), plats, k + 1)

\* Player.spring_collisions: vel_y after it
spring_collisions(p, springs) ==
    IF \E k \in DOMAIN springs :
          /\ colliderect(p.rect, springs[k])
          /\ p.vel_y > 0
          /\ 2 * bottom(p.rect) <= 2 * springs[k].y + p.vel_y
    THEN -(3 * JUMP_POWER)
    ELSE p.vel_y

\* the keys held in a frame
Keys == [left : BOOLEAN, right : BOOLEAN, space : BOOLEAN]

\* if keys[pygame.K_SPACE] and self.on_ground
CanJump_Always(keys, grounded) == keys.space

CanJump(keys, grounded) == keys.space /\ grounded

\* player.handle_input(keys); player.update(platforms, springs) of simplephysics.py
PlayerFrame(keys) ==
    /\ game = "simplephysics"
    /\ loop_at = "update"
    /\ player_rect.x \in -WorldMargin..(SCREEN_WIDTH + WorldMargin)
    /\ player_rect.y <= SCREEN_HEIGHT + WorldMargin
    /\ LET level == SimpleLeveldata(indexlevel)
           vel_x == IF keys.right THEN SPEED ELSE IF keys.left THEN -SPEED ELSE 0
           jump == CanJump(keys, on_ground)
           vy == (IF jump THEN -(2 * JUMP_POWER) ELSE vel_y) + 2 * GRAVITY
           moved == [player_rect EXCEPT !.x = @ + vel_x, !.y = TruncHalf(2 * @ + vy)]
           p == check_collisions([rect |-> moved, vel_y |-> vy, on_ground |-> FALSE],
                                 level.platforms, 1)
       IN  /\ player_rect' = p.rect
           /\ vel_y' = spring_collisions(p, level.springs)
           /\ on_ground' = p.on_ground
           /\ jumped' = jump
    /\ loop_at' = "portal"
    /\ UNCHANGED <<game, indexlevel, melee_vars, demo_vars, arena_vars>>

\* handle_input and update of either program, seen from the level loop: the player
\* ends the frame somewhere, pos, at some vertical speed
PlayerMoved(pos, vy, grounded) ==
    /\ game # "none"
    /\ loop_at = "update"
    /\ player_rect' = [player_rect EXCEPT !.x = pos[1], !.y = pos[2]]
    /\ vel_y' = vy
    /\ on_ground' = grounded
    /\ jumped' = FALSE
    /\ loop_at' = "portal"
    /\ UNCHANGED <<game, indexlevel, melee_vars, demo_vars, arena_vars>>

\* indexlevel += 1
NextLevel_Skip(levelindex) == levelindex + 2

NextLevel(levelindex) == levelindex + 1

\* if portal and player.rect.colliderect(portal.rect): the level change
PortalStep ==
    /\ game # "none"
    /\ loop_at = "portal"
    /\ loop_at' = "update"
    /\ IF \E portal \in PortalOf(game, indexlevel) : colliderect(player_rect, portal)
       THEN LET start == StartOf(game, NextLevel(indexlevel))
            IN  /\ indexlevel' = NextLevel(indexlevel)
                /\ vel_y' = 0
                /\ player_rect' = [player_rect EXCEPT !.x = start[1], !.y = start[2]]
       ELSE UNCHANGED <<indexlevel, vel_y, player_rect>>
    /\ UNCHANGED <<game, on_ground, jumped, melee_vars, demo_vars, arena_vars>>

\* no platformer runs
NoPlatformer ==
    /\ game = "none"
    /\ indexlevel = 0
    /\ player_rect = Rect(0, 0, 0, 0)
    /\ vel_y = 0
    /\ on_ground = FALSE
    /\ jumped = FALSE
    /\ loop_at = "update"

-----------------------------------------------------------------------------
(* test.py: the arena demo around the MeleeController *)

WIDTH == 800
HEIGHT == 800
DIFFICULTY == 2
HEALTH == 58
InitialBullets == 50
KNOCKBACK == 25
SPAWN_MS == 15000
SHOOT_COOLDOWN_MS == 125

\* the model lets time pass until this long after the last shot, and keeps at
\* most this many projectiles in flight
MaxIdle == 125
MaxBullets == 1

\* Player.firearm_ready
firearm_ready_NoAmmoCheck(ammo, t, latest, cooldown) == t >= latest + cooldown

firearm_ready(ammo, t, latest, cooldown) == ammo > 0 /\ t >= latest + cooldown

\* the keys try_shoot reads: F, and the four directions
ShootKeys == [f : BOOLEAN, left : BOOLEAN, down : BOOLEAN, up : BOOLEAN, right : BOOLEAN]

\* the program runs until draw_hud finds hp < 0
Running == health >= 0

\* now = pygame.time.get_ticks() of a later frame
Tick(ms) ==
    /\ Running
    /\ now < latest_shot + MaxIdle
    /\ now' = now + ms
    /\ UNCHANGED <<BULLETS, latest_shot, bullets, health, wavecount, hit_at_zero,
                   melee_vars, demo_vars, plat_vars>>

\* maybe_proj = player.try_shoot(keys, now); bullets.add(maybe_proj)
try_shoot(keys) ==
    /\ Running
    /\ bullets < MaxBullets
    /\ IF ~keys.f \/ ~firearm_ready(BULLETS, now, latest_shot, SHOOT_COOLDOWN_MS)
       THEN UNCHANGED <<latest_shot, BULLETS, bullets>>
       ELSE IF ~(keys.left \/ keys.right \/ keys.up \/ keys.down)
       THEN UNCHANGED <<latest_shot, BULLETS, bullets>>
       ELSE /\ latest_shot' = now
            /\ BULLETS' = BULLETS - 1
            /\ bullets' = bullets + 1
    /\ UNCHANGED <<now, health, wavecount, hit_at_zero, melee_vars, demo_vars, plat_vars>>

\* Projectile.update: the projectile left the window and killed itself
BulletGone ==
    /\ Running
    /\ bullets > 0
    /\ bullets' = bullets - 1
    /\ UNCHANGED <<now, BULLETS, latest_shot, health, wavecount, hit_at_zero,
                   melee_vars, demo_vars, plat_vars>>

Min(a, b) == IF a < b THEN a ELSE b
Max(a, b) == IF a > b THEN a ELSE b

\* the edge of the window where Enemy.__init__ and enemy_hit put an enemy's centre
EdgeCenters == {<<0, 400>>, <<400, HEIGHT>>}

\* rect.center = c
CenteredAt(rect, c) == [rect EXCEPT !.x = c[1] - (rect.w \div 2), !.y = c[2] - (rect.h \div 2)]

\* Enemy.enemy_hit: hp and rect after the call, whether the enemy killed itself,
\* the ammunition it dropped, and the value returned; bullet is the direction of
\* the projectile or "None", bonus and edge what random returned
enemy_hit(hp, rect, bullet, knockout_on_death, bonus, edge) ==
    LET left == hp - 1
    IN  IF left <= 0
        THEN IF knockout_on_death
             THEN [hp |-> left, rect |-> rect, killed |-> TRUE, ammo |-> bonus, died |-> TRUE]
             ELSE [hp |-> left, rect |-> CenteredAt(rect, edge), killed |-> FALSE,
                   ammo |-> 0, died |-> TRUE]
        ELSE [hp |-> left,
              rect |-> IF bullet = "left" THEN [rect EXCEPT !.x = Max(0, rect.x - KNOCKBACK)]
                       ELSE IF bullet = "right"
                       THEN [rect EXCEPT !.x = Min(WIDTH - rect.w, rect.x + KNOCKBACK)]
                       ELSE IF bullet = "up" THEN [rect EXCEPT !.y = Max(0, rect.y - KNOCKBACK)]
                       ELSE IF bullet = "down"
                       THEN [rect EXCEPT !.y = Min(HEIGHT - rect.h, rect.y + KNOCKBACK)]
                       ELSE rect,
              killed |-> FALSE, ammo |-> 0, died |-> FALSE]

\* the enemies group without the sprite e
Without(group, e) == [x \in (DOMAIN group) \ {e} |-> group[x]]

\* the bullet collisions of the main loop, for one projectile that overlaps enemy e
BulletHit(e, dir, bonus) ==
    /\ Running
    /\ bullets > 0
    /\ e \in Targets
    /\ LET r == enemy_hit(enemy_hp[e], enemy_rect[e], dir, TRUE, bonus, <<0, 0>>)
       IN  /\ enemy_hp' = [enemy_hp EXCEPT ![e] = r.hp]
           /\ enemy_rect' = IF r.killed THEN Without(enemy_rect, e)
                            ELSE [enemy_rect EXCEPT ![e] = r.rect]
           /\ BULLETS' = BULLETS + r.ammo
           /\ health' = IF r.died THEN Min(HEALTH, health + wavecount + DIFFICULTY) ELSE health
    /\ bullets' = bullets - 1
    /\ last_call' = "enemy_hit"
    /\ ret' = "None"
    /\ UNCHANGED <<now, latest_shot, wavecount, hit_at_zero, cfg_vars, owner_rect, facing,
                   ctl_vars, obs_vars, demo_vars, plat_vars>>

\* clamp_rect_to_surface(rect, window)
Clamp(rect) ==
    [rect EXCEPT !.x = Max(0, Min(WIDTH - rect.w, rect.x)),
                 !.y = Max(0, Min(HEIGHT - rect.h, rect.y))]

\* Player.knockback, n times: the player's rect after them
RECURSIVE knockback(_, _, _)
knockback(pr, er, n) ==
    IF n = 0 THEN pr
    ELSE LET dx == IF er.x > pr.x THEN er.x - pr.x ELSE pr.x - er.x
             dy == IF er.y > pr.y THEN er.y - pr.y ELSE pr.y - er.y
             pushed == IF dx > dy
                       THEN IF er.x < pr.x THEN [pr EXCEPT !.x = @ + (KNOCKBACK \div 5)]
                            ELSE [pr EXCEPT !.x = @ - (KNOCKBACK \div 5)]
                       ELSE IF er.y < pr.y THEN [pr EXCEPT !.y = @ + (KNOCKBACK \div 5)]
                            ELSE [pr EXCEPT !.y = @ - (KNOCKBACK \div 5)]
         IN  knockback(Clamp(pushed), er, n - 1)

\* the touches of the main loop, for an enemy e that overlaps the player
Touch(e, edge) ==
    /\ Running
    /\ e \in Targets
    /\ colliderect(owner_rect, enemy_rect[e])
    /\ LET r == enemy_hit(enemy_hp[e], enemy_rect[e], "None", FALSE, 0, edge)
       IN  /\ enemy_hp' = [enemy_hp EXCEPT ![e] = r.hp]
           /\ enemy_rect' = [enemy_rect EXCEPT ![e] = r.rect]
           /\ owner_rect' = knockback(owner_rect, r.rect, 5)
    /\ health' = health - 5 * 5
    /\ last_call' = "enemy_hit"
    /\ ret' = "None"
    /\ UNCHANGED <<now, BULLETS, latest_shot, bullets, wavecount, hit_at_zero, cfg_vars,
                   facing, ctl_vars, obs_vars, demo_vars, plat_vars>>

\* KEYDOWN K_d: player.melee.try_start()
ArenaTryStart == Running /\ try_start

\* player.melee.update(dt), with on_hit calling Enemy.take_damage(spec.damage)
ArenaUpdate(dt) ==
    /\ Running
    /\ MeleeUpdate(dt)
    /\ hit_at_zero' = (hit_at_zero \/ \E e \in Targets :
                           on_hit_count'[e] > on_hit_count[e] /\ enemy_hp[e] <= 0)
    /\ UNCHANGED <<now, BULLETS, latest_shot, bullets, health, wavecount, demo_vars, plat_vars>>

\* Enemy.update: the enemy walked to r
ArenaMoveEnemy(e, r) == Running /\ MoveEnemy(e, r)

\* the program before its first frame
ArenaStart ==
    /\ now = 0
    /\ BULLETS = InitialBullets
    /\ latest_shot = 0
    /\ bullets = 0
    /\ health = HEALTH
    /\ wavecount = 0
    /\ hit_at_zero = FALSE

-----------------------------------------------------------------------------
(* Specifications *)

MeleeInitHp(specs, owners, names, enemies, facings, callbacks, hp) ==
    /\ spec \in specs
    /\ owner_rect \in owners
    /\ enemy_rect \in [names -> enemies]
    /\ facing \in facings
    /\ phase = "idle"
    /\ phase_time = 0
    /\ _locked_facing = NoFacing
    /\ _hitbox = NoHitbox
    /\ hitboxes = <<>>
    /\ attack_group = {}
    /\ on_hit \in callbacks
    /\ enemy_hp = [e \in names |-> hp]
    /\ ret = "None"
    /\ last_call = "init"
    /\ on_hit_count = NoCalls
    /\ on_hit_time = <<>>
    /\ overlap_all = AllTrue
    /\ saw_active = FALSE
    /\ fed = 0
    /\ state = "idle"
    /\ state_time = 0
    /\ attack_hitbox = NoHitbox
    /\ attacks = {}
    /\ demo_hitboxes = <<>>
    /\ demo_hp = [e \in names |-> hp]

MeleeInit(specs, owners, names, enemies, facings, callbacks) ==
    MeleeInitHp(specs, owners, names, enemies, facings, callbacks, EnemyHp)

\* a program that uses the melee subsystem and no platformer
InitWith(specs, owners, names, enemies, facings, callbacks) ==
    /\ MeleeInit(specs, owners, names, enemies, facings, callbacks)
    /\ NoPlatformer
    /\ ArenaStart

\* a program that never builds a MeleeController
NoMelee ==
    MeleeInit({DefaultAttackSpec}, {Rect(125, 158, 30, 44)}, {}, {}, {<<1, 0>>}, {"default"})

Init == InitWith(SmallSpecs, OwnerRects, OneEnemy, EnemyRects, Facings, {"default"})

Next ==
    \/ try_start
    \/ \E dt \in Deltas : update(dt)
    \/ \E r \in OwnerRects : MoveOwner(r)
    \/ \E e \in Targets, r \in EnemyRects : MoveEnemy(e, r)
    \/ \E f \in Facings : SetFacing(f)

Spec == Init /\ [][Next]_vars

\* the scenario of the demo: the default timings, frames of at most ScenarioMaxDt ms,
\* owner, enemy and facing as placed at the start
ScenarioInit ==
    InitWith(ScenarioSpecs, OwnerRects, OneEnemy, EnemyRects, {<<1, 0>>}, {"default"})

ScenarioNext ==
    \/ try_start
    \/ \E dt \in ScenarioDeltas : update(dt)

ScenarioSpec == ScenarioInit /\ [][ScenarioNext]_vars

\* the two enemies of the demo: the owner stands still and swings in any of two
\* directions, the first enemy walks around, the second stays where it started
TwoEnemies == {"e1", "e2"}

TwoInit ==
    InitWith({AttackSpec(1, 4, 2, 0, FALSE), AttackSpec(1, 4, 2, 2, FALSE)},
             {Rect(10, 10, 2, 4)}, TwoEnemies, EnemyRects, {<<1, 0>>, <<0, -1>>},
             {"default"})

TwoNext ==
    \/ try_start
    \/ \E dt \in Deltas : update(dt)
    \/ \E r \in EnemyRects : MoveEnemy("e1", r)
    \/ \E f \in {<<1, 0>>, <<0, -1>>} : SetFacing(f)

TwoSpec == TwoInit /\ [][TwoNext]_vars

\* a caller whose facing provider returns any vector with components in {-1, 0, 1},
\* diagonals and the zero vector included
AnyFacings == {<<x, y>> : x \in {-1, 0, 1}, y \in {-1, 0, 1}}

AnyFacingInit ==
    InitWith({AttackSpec(1, 4, 2, 0, FALSE), AttackSpec(1, 4, 2, 0, TRUE)},
             {Rect(10, 10, 2, 4)}, OneEnemy, EnemyRects, AnyFacings, {"default"})

AnyFacingNext ==
    \/ try_start
    \/ \E dt \in Deltas : update(dt)
    \/ \E f \in AnyFacings : SetFacing(f)

AnyFacingSpec == AnyFacingInit /\ [][AnyFacingNext]_vars

\* a controller built without on_hit and one built with the callback of the demo
Callbacks == {"default", "take_damage"}

CallbackInit ==
    InitWith({AttackSpec(1, 4, 2, 0, FALSE), AttackSpec(1, 4, 2, 2, FALSE)},
             {Rect(10, 10, 2, 4)}, OneEnemy, EnemyRects, {<<1, 0>>}, Callbacks)

CallbackNext ==
    \/ try_start
    \/ \E dt \in Deltas : update(dt)
    \/ \E e \in Targets, r \in EnemyRects : MoveEnemy(e, r)

CallbackSpec == CallbackInit /\ [][CallbackNext]_vars

\* the frame loop of the integration guide, step 3 with its optional line
GroupInit ==
    InitWith({AttackSpec(1, 4, 2, 0, FALSE), AttackSpec(1, 4, 2, 2, FALSE)},
             {Rect(10, 10, 2, 4)}, OneEnemy, EnemyRects, {<<1, 0>>}, {"default"})

GroupNext ==
    \/ try_start
    \/ \E dt \in Deltas : update_then_group(dt)
    \/ \E e \in Targets, r \in EnemyRects : MoveEnemy(e, r)

GroupSpec == GroupInit /\ [][GroupNext]_vars

\* the frame loop keeps running: update is called again and again with the
\* milliseconds of a frame that took time
FrameDeltas == 1..MaxDt

FairInit ==
    InitWith(SmallSpecs, {Rect(10, 10, 2, 4)}, OneEnemy,
             {Rect(14, 11, 2, 2)}, {<<1, 0>>}, {"default"})

FairNext ==
    \/ try_start
    \/ \E dt \in Deltas : update(dt)

FairSpec == FairInit /\ [][FairNext]_vars /\ WF_vars(\E dt \in FrameDeltas : update(dt))

\* a caller whose facing provider may return the zero vector or a vector that is
\* not normalised, while the owner walks
OddFacings == {<<1, 0>>, <<0, 0>>, <<2, 0>>, <<0, -1>>}

OddFacingInit ==
    InitWith({AttackSpec(1, 4, 2, 0, FALSE)}, OwnerRects, OneEnemy,
             {Rect(14, 11, 2, 2)}, OddFacings, {"default"})

OddFacingNext ==
    \/ try_start
    \/ \E dt \in Deltas : update(dt)
    \/ \E r \in OwnerRects : MoveOwner(r)
    \/ \E f \in OddFacings : SetFacing(f)

OddFacingSpec == OddFacingInit /\ [][OddFacingNext]_vars

\* the demo of meleeAttack.py and a MeleeController with the default AttackSpec
\* and the callback of test_melee.py, in one frame loop: the sizes are those of
\* the demo (a 30x44 player, 30x30 enemies); the enemy stands in front of the
\* player, above it, or out of reach
PairDeltas == {0, 60, 120, 300, 500}
PairFacings == {<<1, 0>>, <<0, -1>>}
PairEnemyRects == {Rect(170, 165, 30, 30), Rect(125, 110, 30, 30), Rect(245, 105, 30, 30)}

PairInit ==
    InitWith({DefaultAttackSpec}, {Rect(125, 158, 30, 44)}, OneEnemy, PairEnemyRects,
             PairFacings, {"take_damage"})

PairNext ==
    \/ PairStart
    \/ \E dt \in PairDeltas : PairFrame(dt)
    \/ \E e \in Targets, r \in PairEnemyRects : MoveEnemy(e, r)
    \/ \E f \in PairFacings : SetFacing(f)

PairSpec == PairInit /\ [][PairNext]_vars

\* Player(x, y) as main() of either platformer builds it, in the first level
PlatformerInit(games) ==
    /\ NoMelee
    /\ ArenaStart
    /\ game \in games
    /\ indexlevel = 0
    /\ player_rect = IF game = "main" THEN Rect(25, 200, HITBOX_WIDTH, HITBOX_HEIGHT)
                     ELSE Rect(100, LEVEL4[1].y - HITBOX_HEIGHT, SimpleWidth, HITBOX_HEIGHT)
    /\ vel_y = 0
    /\ on_ground = FALSE
    /\ jumped = FALSE
    /\ loop_at = "update"

\* the level loop of both platformers: where the player is after handle_input and
\* update is an input of the frame, drawn from the level starts, a place inside
\* every portal, and a place away from all of them
ProbePositions ==
    {<<25, 200>>, <<10, 300>>, <<-100, 200>>, <<730, 240>>, <<730, 50>>, <<730, 200>>,
     <<400, 150>>, <<700, 450>>, <<300, 432>>}

ProbeSpeeds == {-28, 0, 14}

LevelInit == PlatformerInit({"main", "simplephysics"})

LevelNext ==
    \/ \E pos \in ProbePositions, vy \in ProbeSpeeds, grounded \in BOOLEAN :
          PlayerMoved(pos, vy, grounded)
    \/ PortalStep

LevelSpec == LevelInit /\ [][LevelNext]_vars

\* simplephysics.py frame by frame, any keys held in any frame
PhysInit == PlatformerInit({"simplephysics"})

PhysNext ==
    \/ \E keys \in Keys : PlayerFrame(keys)
    \/ PortalStep

PhysSpec == PhysInit /\ [][PhysNext]_vars

\* test.py before the first wave: no enemy yet, nobody presses D; time passes in
\* steps of 25 and 100 ms, any keys held
ArenaTicks == {25, 100}

AmmoInit ==
    /\ MeleeInit({DefaultAttackSpec}, {Rect(383, 383, 34, 34)}, {}, {}, {<<1, 0>>},
                 {"take_damage"})
    /\ NoPlatformer
    /\ ArenaStart

AmmoNext ==
    \/ \E ms \in ArenaTicks : Tick(ms)
    \/ \E keys \in ShootKeys : try_shoot(keys)
    \/ BulletGone

AmmoSpec == AmmoInit /\ [][AmmoNext]_vars

\* test.py right after the first wave, which brought one Bad and no ammunition,
\* the player having fired all but one round at the empty arena; the
\* enemy stands in reach of the hitbox, on the player or at the left edge
BadHp == 5
ArenaDeltas == {125, 250}
ArenaEnemyRects == {Rect(430, 386, 28, 28), Rect(400, 386, 28, 28), Rect(0, 386, 28, 28)}
BulletDirs == {"right", "up"}

ArenaInit ==
    /\ MeleeInitHp({DefaultAttackSpec}, {Rect(383, 383, 34, 34)}, OneEnemy,
                   {CenteredAt(Rect(0, 0, 28, 28), c) : c \in EdgeCenters}, {<<1, 0>>},
                   {"take_damage"}, BadHp)
    /\ NoPlatformer
    /\ now = SPAWN_MS
    /\ BULLETS = 1
    /\ latest_shot = (InitialBullets - 1) * SHOOT_COOLDOWN_MS
    /\ bullets = 0
    /\ health = HEALTH
    /\ wavecount = 1
    /\ hit_at_zero = FALSE

ArenaNext ==
    \/ ArenaTryStart
    \/ \E dt \in ArenaDeltas : ArenaUpdate(dt)
    \/ \E e \in Targets, r \in ArenaEnemyRects : ArenaMoveEnemy(e, r)
    \/ Tick(SHOOT_COOLDOWN_MS)
    \/ \E keys \in ShootKeys : try_shoot(keys)
    \/ BulletGone
    \/ \E e \in Targets, dir \in BulletDirs, bonus \in {0, 1} : BulletHit(e, dir, bonus)
    \/ \E e \in Targets, edge \in EdgeCenters : Touch(e, edge)

ArenaSpec == ArenaInit /\ [][ArenaNext]_vars

-----------------------------------------------------------------------------
(* Properties *)

\* the controller's hitbox, where the controller has one
Hb == hitboxes[_hitbox]

\* a step that is a call of update(0) during a swing
ZeroUpdate == last_call' = "update" /\ phase # "idle" /\ fed' = fed

\* the step in which a swing completes
SwingEnds == phase = "recovery" /\ phase' = "idle"

\* C1: try_start() returns True iff the phase was idle just before the call; a
\* call in windup, active or recovery returns False and leaves phase, phase_time,
\* the locked facing, the hitbox reference and the attack group as they were.
C1_TryStartIffIdle ==
    [][last_call' = "try_start" =>
         /\ ret' = (IF phase = "idle" THEN "True" ELSE "False")
         /\ (phase # "idle" => UNCHANGED <<phase, phase_time, _locked_facing, _hitbox,
                                           hitboxes, attack_group>>)]_vars

C1_Witness ==
    last_call = "try_start" /\ ret = "False" /\ phase = "recovery" /\ phase_time > 0

\* C2: the attack group never holds more than one hitbox of the controller; right
\* after a successful try_start() it holds exactly the new one, and a refused
\* try_start() adds none.
C2_AtMostOneHitbox ==
    /\ Cardinality(attack_group) <= 1
    /\ (last_call = "try_start" /\ ret = "True" =>
            _hitbox # NoHitbox /\ attack_group = {_hitbox})
    /\ (last_call = "try_start" /\ ret = "False" => attack_group \subseteq {_hitbox})

C2_Witness ==
    last_call = "try_start" /\ ret = "False" /\ attack_group = {_hitbox}

\* C3: the phase changes only along idle -> windup -> active -> recovery -> idle,
\* one phase per call, whatever the size of the delta.
PhaseOrder ==
    {<<"idle", "windup">>, <<"windup", "active">>, <<"active", "recovery">>,
     <<"recovery", "idle">>}

C3_PhaseOrder == [][phase' # phase => <<phase, phase'>> \in PhaseOrder]_vars

\* an update whose delta overshot the whole swing moved the phase one step only
C3_Witness ==
    last_call = "update" /\ phase = "active" /\ phase_time >= total_ms(spec)

\* C4: with multi_hit_interval_ms <= 0 on_hit is called at most once per target in
\* one swing, whatever the deltas and however the target moves in and out.
C4_OncePerSwing ==
    spec.multi_hit_interval_ms <= 0 => \A e \in Targets : on_hit_count[e] <= 1

\* the target was hit, left, came back: a later active frame overlaps it again
C4_Witness ==
    /\ spec.multi_hit_interval_ms <= 0
    /\ last_call = "update" /\ _hitbox # NoHitbox /\ Hb.active
    /\ \E e \in Targets :
          /\ on_hit_count[e] = 1
          /\ ~overlap_all[e]
          /\ colliderect(Hb.rect, enemy_rect[e])
          /\ Hb.elapsed > on_hit_time[e]

\* C5 (as claimed): with multi_hit_interval_ms = 0 a target overlapping the hitbox
\* at every update gets exactly one on_hit call per completed swing.
C5_Original ==
    [][SwingEnds /\ spec.multi_hit_interval_ms = 0 =>
         \A e \in Targets : overlap_all'[e] => on_hit_count'[e] = 1]_vars

\* C5 (amended): such a target gets exactly one on_hit call in a completed swing
\* if some update of the swing left the hitbox's elapsed time inside the active
\* window [windup_ms, windup_ms + active_ms), and none otherwise.
C5_OneHitIfActiveFrame ==
    [][SwingEnds /\ spec.multi_hit_interval_ms = 0 =>
         \A e \in Targets :
            overlap_all'[e] => on_hit_count'[e] = (IF saw_active' THEN 1 ELSE 0)]_vars

C5_Witness ==
    /\ phase = "idle" /\ last_call = "update" /\ fed >= total_ms(spec)
    /\ spec.multi_hit_interval_ms = 0
    /\ \E e \in Targets : overlap_all[e] /\ on_hit_count[e] = 1

\* C6: whenever on_hit is called for a target, the update that called it returns
\* with the phase 'active' and the target overlapping the hitbox; so a target
\* that overlaps only while the phase is windup or recovery is never hit.
C6_HitOnlyInActive ==
    [][\A e \in Targets :
          on_hit_count'[e] > on_hit_count[e] =>
             /\ phase' = "active"
             /\ _hitbox' # NoHitbox
             /\ colliderect(hitboxes'[_hitbox'].rect, enemy_rect'[e])]_vars

\* the swing had active frames, the target overlaps in recovery only: no call
C6_Witness ==
    /\ phase = "recovery" /\ last_call = "update" /\ saw_active
    /\ \E e \in Targets : colliderect(Hb.rect, enemy_rect[e]) /\ on_hit_count[e] = 0

C9_Scenario ==
    last_call = "update" =>
       /\ (DefaultWindupMs <= fed /\ fed < DefaultWindupMs + DefaultActiveMs =>
              phase = "active")
       /\ (/\ DefaultWindupMs + DefaultActiveMs <= fed
           /\ fed < DefaultWindupMs + DefaultActiveMs + DefaultRecoveryMs
           => phase = "recovery")
       /\ (fed >= DefaultWindupMs + DefaultActiveMs + DefaultRecoveryMs =>
              phase = "idle" /\ _hitbox = NoHitbox /\ phase_time = 0)

C9_Witness ==
    last_call = "update" /\ fed = DefaultWindupMs /\ phase = "active"

\* C10 (as claimed): update(0) changes neither the phase, nor phase_time, nor the
\* hitbox's elapsed time, nor the hit records.
C10_Original ==
    [][ZeroUpdate =>
         /\ phase' = phase
         /\ phase_time' = phase_time
         /\ on_hit_count' = on_hit_count
         /\ _hitbox' = _hitbox
         /\ (_hitbox # NoHitbox =>
                /\ hitboxes'[_hitbox].elapsed = Hb.elapsed
                /\ hitboxes'[_hitbox].last_hit_time_by_enemy = Hb.last_hit_time_by_enemy)]_vars

\* the phase has caught up with phase_time: no transition is due
PhaseSettled ==
    /\ phase = "windup" => phase_time < spec.windup_ms
    /\ phase = "active" => phase_time < spec.windup_ms + spec.active_ms
    /\ phase = "recovery" => phase_time < total_ms(spec)

\* C10 (amended): update(0) never changes the hitbox's elapsed time; it leaves
\* phase, phase_time and the hitbox reference unchanged when no transition is due
\* (phase_time below the end of the current phase); and it calls on_hit for no
\* target and leaves the hit records unchanged when the call before it was an
\* update too, with owner, targets and facing unchanged in between.
C10_ZeroUpdate ==
    [][ZeroUpdate =>
         /\ (PhaseSettled =>
                phase' = phase /\ phase_time' = phase_time /\ _hitbox' = _hitbox)
         /\ (_hitbox # NoHitbox /\ _hitbox' # NoHitbox =>
                _hitbox' = _hitbox /\ hitboxes'[_hitbox].elapsed = Hb.elapsed)
         /\ (last_call = "update" =>
                /\ on_hit_count' = on_hit_count
                /\ (_hitbox # NoHitbox /\ _hitbox' # NoHitbox =>
                       hitboxes'[_hitbox].last_hit_time_by_enemy
                          = Hb.last_hit_time_by_enemy))]_vars

\* update(0) was called twice in a row in the active window, a target hit before
C10_Witness ==
    /\ last_call = "update" /\ phase = "active" /\ PhaseSettled
    /\ _hitbox # NoHitbox /\ Hb.active /\ Hb.elapsed = phase_time
    /\ \E e \in Targets : colliderect(Hb.rect, enemy_rect[e]) /\ on_hit_count[e] = 1

\* the rectangle lies beyond the side of pr that f points to, gap pixels away from
\* it, with its centre on pr's centre along the other axis
OnSide(rect, pr, f, gap) ==
    /\ f \in Facings
    /\ f = <<1, 0>> => rect.x = right(pr) + gap /\ centery(rect) = centery(pr)
    /\ f = <<-1, 0>> => right(rect) = pr.x - gap /\ centery(rect) = centery(pr)
    /\ f = <<0, -1>> => bottom(rect) = pr.y - gap /\ centerx(rect) = centerx(pr)
    /\ f = <<0, 1>> => rect.y = bottom(pr) + gap /\ centerx(rect) = centerx(pr)

\* C11: with lock_facing_during_attack the hitbox of a swing gets the facing the
\* provider returned at try_start() and keeps it at every update of the swing:
\* whatever the provider returns meanwhile, the hitbox stays on the same side of
\* the owner and keeps its size.
C11_LockedFacing ==
    [][spec.lock_facing_during_attack =>
         /\ (last_call' = "try_start" /\ ret' = "True" =>
                 /\ hitboxes'[_hitbox'].facing = Normalize(facing)
                 /\ _locked_facing' = Normalize(facing))
         /\ (last_call' = "update" /\ _hitbox # NoHitbox /\ _hitbox' # NoHitbox =>
                 /\ _hitbox' = _hitbox
                 /\ hitboxes'[_hitbox].facing = Hb.facing
                 /\ hitboxes'[_hitbox].facing = _locked_facing
                 /\ hitboxes'[_hitbox].rect.w = Hb.rect.w
                 /\ hitboxes'[_hitbox].rect.h = Hb.rect.h
                 /\ OnSide(hitboxes'[_hitbox].rect, owner_rect, Hb.facing,
                           spec.front_gap_px))]_vars

\* the provider turned from right to up during the swing; the hitbox still faces right
C11_Witness ==
    /\ spec.lock_facing_during_attack
    /\ last_call = "update" /\ _hitbox # NoHitbox
    /\ facing = <<0, -1>>
    /\ Hb.facing = <<1, 0>>
    /\ Hb.rect.w = spec.hitbox_w /\ Hb.rect.x = right(owner_rect) + spec.front_gap_px

\* C12: between calls the attack group holds no hitbox whose elapsed time has
\* reached the swing's total duration, and none at all while the controller is idle.
C12_NoGhostHitbox ==
    /\ \A id \in attack_group : hitboxes[id].elapsed < total_ms(spec)
    /\ (phase = "idle" => attack_group = {})

\* the hitbox ran out and left the group while the controller, one transition per
\* call, is still in its swing
C12_Witness ==
    /\ last_call = "update" /\ phase = "active"
    /\ _hitbox # NoHitbox /\ Hb.elapsed >= total_ms(spec)
    /\ attack_group = {}

\* C13: on_hit is called in an update only for targets whose rectangle overlaps
\* the hitbox's rectangle as that update repositioned it; of two targets, the one
\* that stays away from the owner all along is never called, whatever the other gets.
C13_OnlyOverlapping ==
    /\ [][\A e \in Targets :
            on_hit_count'[e] > on_hit_count[e] =>
                colliderect(hitboxes'[_hitbox].rect, enemy_rect[e])]_vars
    /\ [](enemy_rect["e2"] = Rect(40, 40, 2, 2) => on_hit_count["e2"] = 0)

\* the swing hit the first enemy and not the second, which never overlapped
C13_Witness ==
    /\ last_call = "update" /\ phase = "recovery"
    /\ enemy_rect["e2"] = Rect(40, 40, 2, 2)
    /\ on_hit_count["e1"] >= 1
    /\ on_hit_count["e2"] = 0

\* C14: right after the hitbox is constructed and right after every update of it,
\* for each of the four cardinal facings its rectangle lies beyond the side of the
\* owner's current rectangle the facing points to, front_gap_px away from it, and
\* is centred on the owner along the other axis.
C14_Placement ==
    (/\ _hitbox # NoHitbox
     /\ last_call = "update" \/ (last_call = "try_start" /\ ret = "True")
     /\ Hb.facing \in Facings)
    => OnSide(Hb.rect, owner_rect, Hb.facing, spec.front_gap_px)

\* the locked swing to the right hit the enemy next to where the owner stood at
\* spawn; the owner has walked on since and the hitbox is at its new right side
C14_Witness ==
    /\ last_call = "update" /\ _hitbox # NoHitbox
    /\ spec.lock_facing_during_attack /\ Hb.facing = <<1, 0>>
    /\ on_hit_count["e1"] = 1
    /\ owner_rect = Rect(20, 10, 2, 4)
    /\ Hb.rect = Rect(23, 11, 4, 2)

\* C15: at every point of a swing the size of the hitbox matches its current
\* facing: hitbox_w x hitbox_h while it faces left or right, hitbox_w_v x
\* hitbox_h_v while it faces up or down, also after an unlocked facing turned.
C15_SizeMatchesFacing ==
    _hitbox # NoHitbox =>
        /\ (Hb.facing \in {<<1, 0>>, <<-1, 0>>} =>
                Hb.rect.w = spec.hitbox_w /\ Hb.rect.h = spec.hitbox_h)
        /\ (Hb.facing \in {<<0, -1>>, <<0, 1>>} =>
                Hb.rect.w = spec.hitbox_w_v /\ Hb.rect.h = spec.hitbox_h_v)

\* C16: a new hitbox whose facing has both components non-zero is placed and sized
\* as for the horizontal facing of the same x: hitbox_w x hitbox_h, at the owner's
\* left or right side, front_gap_px away and centred vertically.
C16_HorizontalWins ==
    (/\ last_call = "try_start" /\ ret = "True"
     /\ facing[1] # 0 /\ facing[2] # 0)
    => /\ Hb.rect.w = spec.hitbox_w /\ Hb.rect.h = spec.hitbox_h
       /\ OnSide(Hb.rect, owner_rect, <<facing[1], 0>>, spec.front_gap_px)

\* C17: after every update of the hitbox its active flag is true exactly when
\* windup_ms <= elapsed < windup_ms + active_ms; on_hit is called only in updates
\* that leave it true; with active_ms = 0 on_hit is never called.
C17_ActiveFlag ==
    /\ [](last_call = "update" /\ _hitbox # NoHitbox =>
            (Hb.active <=> (/\ spec.windup_ms <= Hb.elapsed
                            /\ Hb.elapsed < spec.windup_ms + spec.active_ms)))
    /\ [][\A e \in Targets :
            on_hit_count'[e] > on_hit_count[e] =>
                /\ hitboxes'[_hitbox].active
                /\ spec.windup_ms <= hitboxes'[_hitbox].elapsed
                /\ hitboxes'[_hitbox].elapsed < spec.windup_ms + spec.active_ms]_vars
    /\ [](spec.active_ms = 0 => \A e \in Targets : on_hit_count[e] = 0)

\* the update that brought the hitbox exactly to the start of the window hit
C17_Witness ==
    /\ last_call = "update" /\ _hitbox # NoHitbox
    /\ spec.windup_ms > 0 /\ Hb.elapsed = spec.windup_ms
    /\ Hb.active
    /\ on_hit_time = [e \in {"e1"} |-> spec.windup_ms]

\* C18: once a swing has started, and as long as update keeps being called with
\* deltas of at least 1 ms, the controller gets back to idle with phase_time 0 and
\* no hitbox reference; a try_start() called in that state succeeds and starts a
\* new swing.
C18_SwingTerminates ==
    /\ (phase # "idle") ~> (phase = "idle" /\ phase_time = 0 /\ _hitbox = NoHitbox)
    /\ [][last_call' = "try_start" /\ phase = "idle" =>
            /\ ret' = "True"
            /\ phase' = "windup" /\ phase_time' = 0
            /\ _hitbox' # NoHitbox /\ _hitbox' \in attack_group'
            /\ hitboxes'[_hitbox'].elapsed = 0]_vars

\* a swing that hit the enemy has run to its end
C18_Witness ==
    /\ last_call = "update" /\ phase = "idle" /\ phase_time = 0 /\ _hitbox = NoHitbox
    /\ fed >= total_ms(spec)
    /\ on_hit_count["e1"] = 1

\* C19: a controller call never moves a target or changes the target collection,
\* and changes a target's hp only by calling on_hit for it: with the default
\* callback, which does nothing, every target's hp stays as it was.
C19_OnlyTheCallback ==
    [][last_call' \in {"try_start", "update"} =>
         /\ enemy_rect' = enemy_rect
         /\ DOMAIN enemy_hp' = DOMAIN enemy_hp
         /\ (on_hit = "default" => enemy_hp' = enemy_hp)
         /\ \A e \in Targets :
               enemy_hp'[e] # enemy_hp[e] => on_hit_count'[e] > on_hit_count[e]]_vars

\* on_hit was called twice in a swing of a controller with the default callback
C19_Witness ==
    /\ on_hit = "default" /\ last_call = "update"
    /\ on_hit_count["e1"] = 2
    /\ enemy_hp["e1"] = EnemyHp

\* C20: with attack_group.update(dt) called every frame after controller.update(dt)
\* the callbacks fire in the same frames and as often as with controller.update(dt)
\* alone, and the hitbox leaves the attack group in the same frame: a frame calls
\* on_hit at most once per target and only if the time fed to the swing lies in
\* the active window, and the hitbox leaves the group in the frame in which the
\* time fed reaches the total duration.
C20_GroupUpdateHarmless ==
    [][last_call' = "update" =>
         /\ \A e \in Targets :
               on_hit_count'[e] > on_hit_count[e] =>
                  /\ on_hit_count'[e] = on_hit_count[e] + 1
                  /\ spec.windup_ms <= fed'
                  /\ fed' < spec.windup_ms + spec.active_ms
         /\ (_hitbox \in attack_group /\ _hitbox \notin attack_group' =>
                fed < total_ms(spec) /\ fed' >= total_ms(spec))]_vars

\* C21: in every reachable state is_attacking is true exactly when the phase is
\* not 'idle'.
C21_IsAttacking == is_attacking <=> phase # "idle"

\* the hitbox is gone already, the controller recovers: still attacking
C21_Witness ==
    /\ last_call = "update" /\ phase = "recovery" /\ attack_group = {}
    /\ is_attacking

\* C22: total_ms of the spec equals windup_ms + active_ms + recovery_ms, and every
\* hitbox has active_start = windup_ms, active_end = windup_ms + active_ms and
\* duration = total_ms of the spec it was built from.
C22_Timings ==
    /\ total_ms(spec) = spec.windup_ms + spec.active_ms + spec.recovery_ms
    /\ \A id \in DOMAIN hitboxes :
          /\ hitboxes[id].active_start = spec.windup_ms
          /\ hitboxes[id].active_end = spec.windup_ms + spec.active_ms
          /\ hitboxes[id].duration = spec.windup_ms + spec.active_ms + spec.recovery_ms

\* a hitbox just built from a spec whose three durations are all positive
C22_Witness ==
    /\ last_call = "try_start" /\ ret = "True"
    /\ spec.windup_ms > 0 /\ spec.active_ms > 0 /\ spec.recovery_ms > 0
    /\ Hb.active_start < Hb.active_end /\ Hb.active_end < Hb.duration

\* C24: in an update of a swing with an unlocked facing the hitbox gets the
\* provider's current value before it is advanced: after the update it has that
\* facing, lies on that side of the owner, and every target on_hit was called for
\* overlaps the rectangle placed there. The hitbox is advanced by the delta of the
\* call in every update, and it leaves the group in the very update that takes
\* its elapsed time to the total duration.
C24_RefreshThenAdvance ==
    [][last_call' = "update" /\ _hitbox # NoHitbox /\ _hitbox' # NoHitbox =>
         /\ (~spec.lock_facing_during_attack =>
                /\ hitboxes'[_hitbox].facing = facing
                /\ OnSide(hitboxes'[_hitbox].rect, owner_rect, facing, spec.front_gap_px)
                /\ \A e \in Targets :
                      on_hit_count'[e] > on_hit_count[e] =>
                         colliderect(hitboxes'[_hitbox].rect, enemy_rect[e]))
         /\ hitboxes'[_hitbox].elapsed = Hb.elapsed + (fed' - fed)
         /\ (Hb.elapsed + (fed' - fed) >= total_ms(spec) => _hitbox \notin attack_group')]_vars

\* the swing started to the right, the player turned up, and the update hit the
\* enemy above the owner
C24_Witness ==
    /\ last_call = "update" /\ _hitbox # NoHitbox
    /\ ~spec.lock_facing_during_attack
    /\ facing = <<0, -1>> /\ Hb.facing = <<0, -1>>
    /\ Hb.rect.w = spec.hitbox_w
    /\ on_hit_time = [e \in {"e1"} |-> Hb.elapsed]
    /\ enemy_rect["e1"] = Rect(10, 6, 2, 2)

\* C25: an update moves the phase by one step at most, so the three steps from
\* windup back to idle take three updates at least: idle is entered from recovery
\* only, recovery from active only, active from windup only, each by an update;
\* an update in windup whose delta is the total duration or more ends in 'active'
\* with the hitbox reference kept and the hitbox out of the attack group.
C25_OneTransitionPerUpdate ==
    [][last_call' = "update" =>
         /\ (phase' = "idle" => phase \in {"recovery", "idle"})
         /\ (phase' = "recovery" => phase \in {"active", "recovery"})
         /\ (phase' = "active" => phase \in {"windup", "active"})
         /\ (phase = "windup" /\ fed' - fed >= total_ms(spec) =>
                /\ phase' = "active"
                /\ _hitbox' = _hitbox /\ _hitbox' # NoHitbox
                /\ _hitbox' \notin attack_group')]_vars

\* one update took the whole swing's time: the controller is in 'active', two
\* more updates away from idle, and its hitbox has left the group
C25_Witness ==
    /\ last_call = "update" /\ phase = "active"
    /\ fed >= total_ms(spec) /\ phase_time = fed
    /\ spec.recovery_ms > 0
    /\ Hb.elapsed = fed /\ ~Hb.active
    /\ _hitbox \notin attack_group

\* C26 (as claimed): after every controller update during a swing the hitbox's
\* active flag is true exactly when the controller's phase is 'active'.
C26_Original ==
    last_call = "update" /\ _hitbox # NoHitbox => (Hb.active <=> phase = "active")

\* C26 (amended): after every controller update during a swing the hitbox's
\* active flag is true exactly when the phase is 'active' and phase_time is still
\* below windup_ms + active_ms; a delta that takes the time from windup to the end
\* of the active window or beyond leaves the phase 'active' with the flag false.
C26_FlagVsPhase ==
    last_call = "update" /\ _hitbox # NoHitbox =>
        (Hb.active <=> (/\ phase = "active"
                        /\ phase_time < spec.windup_ms + spec.active_ms))

\* the window of a spec with three positive durations was jumped in one update
C26_Witness ==
    /\ last_call = "update" /\ _hitbox # NoHitbox
    /\ spec.windup_ms > 0 /\ spec.active_ms > 0
    /\ phase = "active" /\ ~Hb.active
    /\ phase_time = spec.windup_ms + spec.active_ms

C28_RefIffSwinging ==
    /\ _hitbox = NoHitbox <=> phase = "idle"
    /\ phase = "idle" => phase_time = 0

\* a swing has run to its end and the player has moved since
C28_Witness ==
    /\ last_call = "move" /\ phase = "idle"
    /\ fed >= total_ms(spec) /\ fed > 0
    /\ _hitbox = NoHitbox /\ hitboxes = <<>>

\* C29: update(dt) called while the phase is 'idle' changes nothing: phase,
\* phase_time, locked facing, hitbox reference, hitbox objects and attack group
\* stay as they were, on_hit is not called and no enemy's hp changes.
C29_IdleUpdateNoop ==
    [][last_call' = "update" /\ phase = "idle" =>
         /\ UNCHANGED <<phase, phase_time, _locked_facing, _hitbox, hitboxes, attack_group>>
         /\ UNCHANGED <<on_hit_count, on_hit_time, enemy_hp>>]_vars

\* update was called on a controller that has not swung yet
C29_Witness ==
    /\ last_call = "update" /\ phase = "idle"
    /\ fed = 0 /\ phase_time = 0 /\ attack_group = {}

\* C30: every successful try_start() creates a hitbox with an empty hit record and
\* elapsed time 0, whatever the previous swing hit; with multi_hit_interval_ms <= 0
\* a swing still calls on_hit for a target at most once.
C30_FreshHitRecord ==
    /\ [][last_call' = "try_start" /\ ret' = "True" =>
            /\ hitboxes'[_hitbox'].last_hit_time_by_enemy = <<>>
            /\ hitboxes'[_hitbox'].elapsed = 0
            /\ ~hitboxes'[_hitbox'].active
            /\ \A e \in Targets : on_hit_count'[e] = 0]_vars
    /\ [](spec.multi_hit_interval_ms <= 0 =>
            /\ \A e \in Targets : on_hit_count[e] <= 1
            /\ \A id \in DOMAIN hitboxes :
                  \A e \in DOMAIN hitboxes[id].last_hit_time_by_enemy :
                     on_hit_count[e] = 1)

\* the enemy lost one hp in an earlier swing and one more in this one
C30_Witness ==
    /\ spec.multi_hit_interval_ms = 0 /\ on_hit = "take_damage"
    /\ enemy_hp["e1"] = EnemyHp - 2 * spec.damage
    /\ on_hit_count["e1"] = 1
    /\ Hb.last_hit_time_by_enemy = on_hit_time

\* C31: after every frame the demo's Player and the MeleeController are in the
\* same phase with the same phase time, the enemies have the same hp (so the same
\* targets were damaged in the same frames), and the hitbox is in the attack group
\* of the one exactly when it is in the attack group of the other.
C31_DemoEquivalent ==
    /\ state = phase
    /\ state_time = phase_time
    /\ demo_hp = enemy_hp
    /\ (attack_hitbox = NoHitbox <=> _hitbox = NoHitbox)
    /\ Cardinality(attacks) = Cardinality(attack_group)
    /\ attack_hitbox \in attacks <=> _hitbox \in attack_group
    /\ _hitbox # NoHitbox =>
          /\ DOMAIN Hb.last_hit_time_by_enemy = demo_hitboxes[attack_hitbox].already_hit
          /\ _hitbox \in attack_group => Hb.elapsed = demo_hitboxes[attack_hitbox].elapsed

\* both damaged the enemy in two swings, and the second swing is in recovery
C31_Witness ==
    /\ last_call = "update" /\ state = "recovery" /\ phase = "recovery"
    /\ demo_hp["e1"] = EnemyHp - 2 /\ enemy_hp["e1"] = EnemyHp - 2
    /\ attacks # {} /\ attack_group # {}

\* C32: in the frame loop of meleeAttack.py the attacks group never holds more than
\* one hitbox and holds none while the Player is idle; the frame in which the
\* Player returns to idle leaves the group empty.
C32_DemoGroupEmptiesInTime ==
    /\ [](Cardinality(attacks) <= 1 /\ (state = "idle" => attacks = {}))
    /\ [][state = "recovery" /\ state' = "idle" => attacks' = {}]_vars

\* a swing that damaged the enemy is over, and the group is empty
C32_Witness ==
    /\ last_call = "update" /\ state = "idle" /\ attack_hitbox = NoHitbox
    /\ demo_hp["e1"] = EnemyHp - 1 /\ attacks = {} /\ demo_hitboxes = <<>>

\* the facing has no component equal to 1 or -1
NoUnitComponent(f) == f[1] \notin {1, -1} /\ f[2] \notin {1, -1}

\* C33: a hitbox spawned while the provider returns a vector that normalises to
\* zero has its rectangle at the origin; an update that refreshes the hitbox's
\* facing to a vector with no component equal to 1 or -1 leaves the rectangle
\* where it was, wherever the owner is.
C33_ZeroFacingStays ==
    [][/\ (last_call' = "try_start" /\ ret' = "True" /\ Normalize(facing) = <<0, 0>> =>
            hitboxes'[_hitbox'].rect.x = 0 /\ hitboxes'[_hitbox'].rect.y = 0)
       /\ (last_call' = "update" /\ _hitbox # NoHitbox /\ _hitbox' # NoHitbox
            /\ NoUnitComponent(EffectiveFacing(_locked_facing, facing)) =>
            hitboxes'[_hitbox'].rect = Hb.rect)]_vars

\* the hitbox was placed right of the owner at x = 10, its facing then became a
\* vector without unit component, the owner walked to x = 20 and an update ran
C33_Witness ==
    /\ last_call = "update" /\ _hitbox # NoHitbox
    /\ NoUnitComponent(Hb.facing)
    /\ owner_rect = Rect(20, 10, 2, 4)
    /\ Hb.rect.x = right(Rect(10, 10, 2, 4)) + spec.front_gap_px
    /\ Hb.elapsed > 0

\* the first index leveldata has no level for
LastLevel == IF game = "main" THEN 13 ELSE 4

\* C34: the level index changes only by +1, only in the portal check of a frame in
\* which the player overlaps the current level's portal, and then vel_y is 0 and the
\* player stands at the new level's start; from index 13 (main.py) or 4
\* (simplephysics.py) on there is no portal and the index never changes.
C34_LevelIndex ==
    /\ [][indexlevel' # indexlevel =>
            /\ indexlevel' = indexlevel + 1
            /\ loop_at = "portal"
            /\ \E portal \in PortalOf(game, indexlevel) : colliderect(player_rect, portal)
            /\ vel_y' = 0
            /\ <<player_rect'.x, player_rect'.y>> = StartOf(game, indexlevel')]_vars
    /\ [][loop_at = "portal"
            /\ (\E portal \in PortalOf(game, indexlevel) : colliderect(player_rect, portal)) =>
            indexlevel' = indexlevel + 1]_vars
    /\ [](indexlevel >= LastLevel => PortalOf(game, indexlevel) = {})
    /\ [](indexlevel <= LastLevel)

\* main.py past its last level: the player stood where the first level's portal
\* was, at some speed, and the portal check left everything as it was
C34_Witness ==
    /\ game = "main" /\ indexlevel = 13 /\ loop_at = "update"
    /\ player_rect.x = 730 /\ player_rect.y = 240 /\ vel_y = 14

\* the platforms of the level the player is in
PlatformsNow == SimpleLeveldata(indexlevel).platforms

\* C35: after check_collisions on_ground holds only if the player was falling in
\* that frame, now has vel_y = 0 and stands with rect.bottom on the top of a
\* platform of the level; handle_input starts a jump only when on_ground held, and
\* the frame of the jump ends with on_ground false.
C35_GroundAndJump ==
    /\ [](loop_at = "portal" /\ on_ground =>
            /\ vel_y = 0
            /\ ~jumped
            /\ \E k \in DOMAIN PlatformsNow : bottom(player_rect) = PlatformsNow[k].y)
    /\ [][loop_at = "update" /\ on_ground' => vel_y + 2 * GRAVITY > 0]_vars
    /\ [][loop_at = "update" /\ (jumped' \/ vel_y' = 2 * GRAVITY - 2 * JUMP_POWER) =>
            on_ground /\ ~on_ground']_vars

\* in the second level the player jumped from the platform at 320 and has just
\* landed on the one at 220
C35_Witness ==
    /\ indexlevel = 1 /\ loop_at = "portal" /\ on_ground /\ ~jumped
    /\ bottom(player_rect) = 220 /\ vel_y = 0

\* C36: BULLETS is never negative; a projectile joins the bullets group only in a
\* step that starts with BULLETS > 0 and now >= latest_shot + SHOOT_COOLDOWN_MS,
\* and that step takes exactly 1 from BULLETS and records the time of the shot.
C36_AmmoNeverNegative ==
    /\ [](BULLETS >= 0)
    /\ [][bullets' > bullets =>
            /\ bullets' = bullets + 1
            /\ BULLETS > 0
            /\ now >= latest_shot + SHOOT_COOLDOWN_MS
            /\ BULLETS' = BULLETS - 1
            /\ latest_shot' = now]_vars
    /\ [][BULLETS' < BULLETS => BULLETS' = BULLETS - 1 /\ bullets' = bullets + 1]_vars

\* the last round has just been fired
C36_Witness ==
    /\ BULLETS = 0 /\ bullets = 1 /\ latest_shot = now /\ now >= InitialBullets * SHOOT_COOLDOWN_MS

\* C37: in test.py a call of melee.update never changes the enemies group or an
\* enemy's rect, and leaves every enemy it hits with max(0, hp - spec.damage),
\* whatever hp was; an enemy leaves the group only in a bullet collision whose
\* enemy_hit brought hp to 0 or less, and apart from melee.update only enemy_hit
\* changes hp, by exactly 1 and unclamped.
C37_MeleeNeverKills ==
    [][/\ fed' > fed =>
            /\ enemy_rect' = enemy_rect
            /\ \A e \in Targets :
                  enemy_hp'[e] = IF on_hit_count'[e] > on_hit_count[e]
                                 THEN Max(0, enemy_hp[e] - spec.damage)
                                 ELSE enemy_hp[e]
       /\ Targets' # Targets =>
            /\ last_call' = "enemy_hit"
            /\ bullets' = bullets - 1
            /\ Targets' \subseteq Targets
            /\ \A e \in Targets \ Targets' :
                  enemy_hp'[e] = enemy_hp[e] - 1 /\ enemy_hp'[e] <= 0
       /\ (enemy_hp' # enemy_hp /\ ~(fed' > fed)) =>
            /\ last_call' = "enemy_hit"
            /\ \E e \in Targets : enemy_hp' = [enemy_hp EXCEPT ![e] = @ - 1]]_vars

\* untouched by bullets and by the player, the enemy is at hp 0, still in the
\* group, and a swing has hit it while it was at 0
C37_Witness ==
    /\ "e1" \in Targets
    /\ enemy_hp["e1"] = 0
    /\ hit_at_zero
    /\ on_hit_count["e1"] = 1
    /\ health = HEALTH
    /\ latest_shot < SPAWN_MS

====
